---- MODULE Spec2Model ----
(***************************************************************************)
(* Model of the teamwork proxy (src/src/main.rs): the per-request pipeline *)
(* of base_handler, the link synthesis of Links::new and the response      *)
(* filter error_handler.                                                   *)
(*                                                                         *)
(* Text is modelled as a sequence of one-character strings, so that        *)
(* formatting, splitting, percent-decoding, base64 and number parsing are  *)
(* computed character by character as the code computes them.              *)
(* An Option<T> is a sequence: <<>> is None and <<x>> is Some(x).          *)
(***************************************************************************)
EXTENDS Integers, Sequences, FiniteSets, TLC

\* ------------------------------------------------------------------ bounds

\* The upstream puts 0..MaxPage (or garbage, or nothing) in X-Page / X-Pages.
MaxPage == 3

\* A schema list holds 1..MaxSamples (name, sample) items.
MaxSamples == 2

\* ------------------------------------------------------------------ text

None == <<>>
Some(x) == <<x>>
IsSome(o) == Len(o) = 1
Unwrap(o) == o[1]

\* The printable ASCII characters, code 32 (space) to 126 (~), in order. Code 96
\* (grave accent) cannot be written as a string literal and is never used: its
\* slot holds a name that equals no character.
Ascii ==
  << " ", "!", "\"", "#", "$", "%", "&", "'", "(", ")", "*", "+", ",", "-", ".", "/",
     "0", "1", "2", "3", "4", "5", "6", "7", "8", "9", ":", ";", "<", "=", ">", "?",
     "@", "A", "B", "C", "D", "E", "F", "G", "H", "I", "J", "K", "L", "M", "N", "O",
     "P", "Q", "R", "S", "T", "U", "V", "W", "X", "Y", "Z", "[", "\\", "]", "^", "_",
     "U+0060", "a", "b", "c", "d", "e", "f", "g", "h", "i", "j", "k", "l", "m", "n", "o",
     "p", "q", "r", "s", "t", "u", "v", "w", "x", "y", "z", "{", "|", "}", "~" >>

Ord(c) == 31 + (CHOOSE i \in 1..Len(Ascii) : Ascii[i] = c)
Chr(n) == Ascii[n - 31]

Digits == <<"0", "1", "2", "3", "4", "5", "6", "7", "8", "9">>
IsDigit(c) == \E i \in 1..10 : Digits[i] = c
DigitVal(c) == (CHOOSE i \in 1..10 : Digits[i] = c) - 1

HexDigits == <<"0", "1", "2", "3", "4", "5", "6", "7", "8", "9", "A", "B", "C", "D", "E", "F">>
HexLower == <<"0", "1", "2", "3", "4", "5", "6", "7", "8", "9", "a", "b", "c", "d", "e", "f">>
IsHex(c) == \E i \in 1..16 : HexDigits[i] = c \/ HexLower[i] = c
HexVal(c) == (CHOOSE i \in 1..16 : HexDigits[i] = c \/ HexLower[i] = c) - 1

IsAlnum(c) == LET n == Ord(c) IN (48 <= n /\ n <= 57) \/ (65 <= n /\ n <= 90) \/ (97 <= n /\ n <= 122)

Tail2(s, n) == SubSeq(s, n, Len(s))

StartsWith(s, p) == Len(p) <= Len(s) /\ SubSeq(s, 1, Len(p)) = p
EndsWith(s, p) == Len(p) <= Len(s) /\ SubSeq(s, Len(s) - Len(p) + 1, Len(s)) = p

RECURSIVE IndexFrom(_, _, _)
IndexFrom(s, c, i) == IF i > Len(s) THEN 0 ELSE IF s[i] = c THEN i ELSE IndexFrom(s, c, i + 1)

\* Index of the first occurrence of character c in s, 0 when there is none.
IndexOf(s, c) == IndexFrom(s, c, 1)

\* str::split(c): the pieces of s between the occurrences of c.
RECURSIVE SplitOn(_, _)
SplitOn(s, c) == LET i == IndexOf(s, c) IN
                 IF i = 0 THEN <<s>>
                 ELSE <<SubSeq(s, 1, i - 1)>> \o SplitOn(Tail2(s, i + 1), c)

\* [T]::join(sep)
RECURSIVE Join(_, _)
Join(parts, sep) == IF Len(parts) = 0 THEN <<>>
                    ELSE IF Len(parts) = 1 THEN parts[1]
                    ELSE parts[1] \o sep \o Join(Tail(parts), sep)

\* Display of an unsigned integer ("{}" in format!).
RECURSIVE Itoa(_)
Itoa(n) == IF n < 10 THEN <<Digits[n + 1]>> ELSE Itoa(n \div 10) \o <<Digits[(n % 10) + 1]>>

RECURSIVE DigitsValue(_)
DigitsValue(s) == IF Len(s) = 0 THEN 0
                  ELSE DigitsValue(SubSeq(s, 1, Len(s) - 1)) * 10 + DigitVal(s[Len(s)])

\* usize::from_str: an optional leading "+", then one or more decimal digits.
ParseUsize(s) == LET body == IF Len(s) > 0 /\ s[1] = "+" THEN Tail(s) ELSE s IN
                 IF Len(body) > 0 /\ \A i \in 1..Len(body) : IsDigit(body[i])
                 THEN Some(DigitsValue(body))
                 ELSE None

\* ------------------------------------------------------------------ base64

B64 ==
  << "A", "B", "C", "D", "E", "F", "G", "H", "I", "J", "K", "L", "M", "N", "O", "P",
     "Q", "R", "S", "T", "U", "V", "W", "X", "Y", "Z", "a", "b", "c", "d", "e", "f",
     "g", "h", "i", "j", "k", "l", "m", "n", "o", "p", "q", "r", "s", "t", "u", "v",
     "w", "x", "y", "z", "0", "1", "2", "3", "4", "5", "6", "7", "8", "9", "+", "/" >>

\* base64::encode over the bytes of s (standard alphabet, "=" padding).
RECURSIVE base64_encode(_)
base64_encode(s) ==
  IF Len(s) = 0 THEN <<>>
  ELSE LET n  == Len(s)
           b1 == Ord(s[1])
           b2 == IF n >= 2 THEN Ord(s[2]) ELSE 0
           b3 == IF n >= 3 THEN Ord(s[3]) ELSE 0
           v  == b1 * 65536 + b2 * 256 + b3
       IN << B64[(v \div 262144) + 1],
             B64[((v \div 4096) % 64) + 1],
             IF n >= 2 THEN B64[((v \div 64) % 64) + 1] ELSE "=",
             IF n >= 3 THEN B64[(v % 64) + 1] ELSE "=" >>
          \o base64_encode(Tail2(s, 4))

\* ------------------------------------------------------------------ query strings

\* form_urlencoded decoding of one name or value: "+" is a space, "%XX" is the
\* byte XX, a "%" not followed by two hex digits stays as it is.
RECURSIVE PercentDecode(_)
PercentDecode(s) ==
  IF Len(s) = 0 THEN <<>>
  ELSE IF s[1] = "+" THEN <<" ">> \o PercentDecode(Tail(s))
  ELSE IF s[1] = "%" /\ Len(s) >= 3 /\ IsHex(s[2]) /\ IsHex(s[3])
       THEN <<Chr(HexVal(s[2]) * 16 + HexVal(s[3]))>> \o PercentDecode(Tail2(s, 4))
  ELSE <<s[1]>> \o PercentDecode(Tail(s))

\* form_urlencoded encoding: alphanumerics and * - . _ stay, a space is "+",
\* every other byte is "%XX".
RECURSIVE PercentEncode(_)
PercentEncode(s) ==
  IF Len(s) = 0 THEN <<>>
  ELSE LET c == s[1]
           e == IF IsAlnum(c) \/ c \in {"*", "-", ".", "_"} THEN <<c>>
                ELSE IF c = " " THEN <<"+">>
                ELSE <<"%", HexDigits[(Ord(c) \div 16) + 1], HexDigits[(Ord(c) % 16) + 1]>>
       IN e \o PercentEncode(Tail(s))

\* One "name=value" piece: split at the first "=", decode both sides.
ParsePair(piece) ==
  LET i == IndexOf(piece, "=") IN
  IF i = 0 THEN [k |-> PercentDecode(piece), v |-> <<>>]
  ELSE [k |-> PercentDecode(SubSeq(piece, 1, i - 1)), v |-> PercentDecode(Tail2(piece, i + 1))]

\* Url::query_pairs / form_urlencoded::parse: the decoded (name, value) pairs of
\* a query string, in order; empty pieces between "&" are skipped.
query_pairs(q) ==
  LET pieces == SelectSeq(SplitOn(q, "&"), LAMBDA p : Len(p) > 0)
  IN [i \in 1..Len(pieces) |-> ParsePair(pieces[i])]

\* ------------------------------------------------------------------ JSON

\* serde_json::Value as <<kind, payload>>. The kind is compared first, so values
\* of different kinds are simply unequal.
JNull == <<"null", <<>>>>
JBool(b) == <<"bool", b>>
JNum(n) == <<"number", n>>
JStr(s) == <<"string", s>>
JArr(xs) == <<"array", xs>>
\* An object is the sequence of its members <<name, value>>.
JObj(ms) == <<"object", ms>>
JKind(j) == j[1]
JPayload(j) == j[2]

JFail(i) == [ok |-> FALSE, val |-> JNull, pos |-> i]
JOk(val, i) == [ok |-> TRUE, val |-> val, pos |-> i]

RECURSIVE SkipWs(_, _)
SkipWs(s, i) == IF i <= Len(s) /\ s[i] = " " THEN SkipWs(s, i + 1) ELSE i

RECURSIVE DigitRunEnd(_, _)
DigitRunEnd(s, i) == IF i <= Len(s) /\ IsDigit(s[i]) THEN DigitRunEnd(s, i + 1) ELSE i

\* A string literal starting at the quote s[i] (escapes are outside the subset).
JsonString(s, i) ==
  LET rest == Tail2(s, i + 1)
      j    == IndexOf(rest, "\"")
  IN IF j = 0 \/ IndexOf(SubSeq(rest, 1, j - 1), "\\") # 0 THEN JFail(i)
     ELSE [ok |-> TRUE, val |-> SubSeq(rest, 1, j - 1), pos |-> i + j + 1]

\* serde_json::from_str on the subset: objects, arrays, strings without escapes,
\* unsigned integers, true, false, null, spaces between tokens.
RECURSIVE JsonValue(_, _), JsonElements(_, _, _), JsonMembers(_, _, _)
JsonValue(s, i0) ==
  LET i == SkipWs(s, i0) IN
  IF i > Len(s) THEN JFail(i)
  ELSE IF s[i] = "\"" THEN
         LET r == JsonString(s, i) IN IF r.ok THEN JOk(JStr(r.val), r.pos) ELSE JFail(i)
  ELSE IF IsDigit(s[i]) THEN
         LET j == DigitRunEnd(s, i) IN JOk(JNum(DigitsValue(SubSeq(s, i, j - 1))), j)
  ELSE IF StartsWith(Tail2(s, i), <<"t", "r", "u", "e">>) THEN JOk(JBool(TRUE), i + 4)
  ELSE IF StartsWith(Tail2(s, i), <<"f", "a", "l", "s", "e">>) THEN JOk(JBool(FALSE), i + 5)
  ELSE IF StartsWith(Tail2(s, i), <<"n", "u", "l", "l">>) THEN JOk(JNull, i + 4)
  ELSE IF s[i] = "[" THEN
         LET j == SkipWs(s, i + 1) IN
         IF j <= Len(s) /\ s[j] = "]" THEN JOk(JArr(<<>>), j + 1) ELSE JsonElements(s, j, <<>>)
  ELSE IF s[i] = "{" THEN
         LET j == SkipWs(s, i + 1) IN
         IF j <= Len(s) /\ s[j] = "}" THEN JOk(JObj(<<>>), j + 1) ELSE JsonMembers(s, j, <<>>)
  ELSE JFail(i)

JsonElements(s, i, acc) ==
  LET r == JsonValue(s, i) IN
  IF ~r.ok THEN JFail(i)
  ELSE LET j == SkipWs(s, r.pos) IN
       IF j > Len(s) THEN JFail(j)
       ELSE IF s[j] = "," THEN JsonElements(s, j + 1, Append(acc, r.val))
       ELSE IF s[j] = "]" THEN JOk(JArr(Append(acc, r.val)), j + 1)
       ELSE JFail(j)

JsonMembers(s, i, acc) ==
  LET j == SkipWs(s, i) IN
  IF j > Len(s) \/ s[j] # "\"" THEN JFail(j)
  ELSE LET k == JsonString(s, j) IN
       IF ~k.ok THEN JFail(j)
       ELSE LET c == SkipWs(s, k.pos) IN
            IF c > Len(s) \/ s[c] # ":" THEN JFail(c)
            ELSE LET r == JsonValue(s, c + 1) IN
                 IF ~r.ok THEN JFail(c)
                 ELSE LET e == SkipWs(s, r.pos)
                          m == <<k.val, r.val>>
                      IN IF e > Len(s) THEN JFail(e)
                         ELSE IF s[e] = "," THEN JsonMembers(s, e + 1, Append(acc, m))
                         ELSE IF s[e] = "}" THEN JOk(JObj(Append(acc, m)), e + 1)
                         ELSE JFail(e)

\* Some(value) when the whole text is one JSON value, None otherwise.
JsonParse(s) ==
  LET r == JsonValue(s, 1) IN
  IF r.ok /\ SkipWs(s, r.pos) > Len(s) THEN Some(r.val) ELSE None

\* The value of member name of an object, None when it has none (the last one
\* wins when a name repeats).
JsonGet(obj, name) ==
  LET ms  == JPayload(obj)
      idx == {i \in 1..Len(ms) : ms[i][1] = name}
  IN IF idx = {} THEN None
     ELSE Some(ms[CHOOSE i \in idx : \A j \in idx : j <= i][2])
\* ------------------------------------------------------------------ configuration and routes

\* CachedConfig.endpoint ("teamwork_url"): one configured upstream base.
endpoint == <<"h", "t", "t", "p", ":", "/", "/", "t", "w">>

\* CachedConfig.api_key: Option<String>.
ApiKeys == {None, Some(<<"a", "b", "c">>)}

\* The three routes main registers, with the upstream path and the envelope key
\* generate_route! binds to each handler.
Routes ==
  << [path |-> <<"/", "t", "a", "s", "k", "s">>, teamwork_route |-> <<"t", "a", "s", "k", "s", ".", "j", "s", "o", "n">>, response_key |-> <<"t", "o", "d", "o", "-", "i", "t", "e", "m", "s">>],
     [path |-> <<"/", "t", "i", "m", "e", "-", "e", "n", "t", "r", "i", "e", "s">>, teamwork_route |-> <<"t", "i", "m", "e", "_", "e", "n", "t", "r", "i", "e", "s", ".", "j", "s", "o", "n">>,
      response_key |-> <<"t", "i", "m", "e", "-", "e", "n", "t", "r", "i", "e", "s">>],
     [path |-> <<"/", "t", "a", "s", "k", "-", "l", "i", "s", "t", "s">>, teamwork_route |-> <<"t", "a", "s", "k", "l", "i", "s", "t", "s", ".", "j", "s", "o", "n">>,
      response_key |-> <<"t", "a", "s", "k", "l", "i", "s", "t", "s">>] >>

RouteOf(path) == Routes[CHOOSE i \in 1..Len(Routes) : Routes[i].path = path]

\* ------------------------------------------------------------------ inbound requests

\* Inbound Authorization header values.
AuthHeaders == {None, Some(<<"B", "e", "a", "r", "e", "r", " ", "t", "0", "k">>)}

\* Inbound query strings (Url::query()): none, a page, a filter and a page, two
\* filters, a page size, a filter whose value holds an encoded "&page=7", a
\* page that is no number.
QueryStrings ==
  { None,
    Some(<<"p", "a", "g", "e", "=", "2">>),
    Some(<<"s", "t", "a", "t", "u", "s", "=", "a", "c", "t", "i", "v", "e", "&", "p", "a", "g", "e", "=", "2">>),
    Some(<<"b", "=", "2", "&", "a", "=", "1">>),
    Some(<<"p", "e", "r", "_", "p", "a", "g", "e", "=", "5">>),
    Some(<<"q", "=", "a", "%", "2", "6", "p", "a", "g", "e", "%", "3", "D", "7">>),
    Some(<<"p", "a", "g", "e", "=", "x">>) }

\* ------------------------------------------------------------------ upstream responses

UpstreamStatuses == {200, 201, 302, 404, 500}

\* StatusCode::is_success
is_success(status) == 200 <= status /\ status <= 299

\* StatusCode::canonical_reason
canonical_reason(status) ==
  CASE status = 200 -> <<"O", "K">>
    [] status = 201 -> <<"C", "r", "e", "a", "t", "e", "d">>
    [] status = 302 -> <<"F", "o", "u", "n", "d">>
    [] status = 400 -> <<"B", "a", "d", " ", "R", "e", "q", "u", "e", "s", "t">>
    [] status = 404 -> <<"N", "o", "t", " ", "F", "o", "u", "n", "d">>
    [] status = 422 -> <<"U", "n", "p", "r", "o", "c", "e", "s", "s", "a", "b", "l", "e", " ", "E", "n", "t", "i", "t", "y">>
    [] status = 500 -> <<"I", "n", "t", "e", "r", "n", "a", "l", " ", "S", "e", "r", "v", "e", "r", " ", "E", "r", "r", "o", "r">>

\* What the upstream may put in X-Page and in X-Pages: nothing, a number, garbage.
PageHeaders == {None, Some(<<"x">>)} \cup {Some(Itoa(n)) : n \in 0..MaxPage}

\* Upstream bodies: None is a body that cannot be read as a string
\* (body_string fails), then text that is no JSON, an error object, and a list
\* under each envelope key.
Bodies ==
  { None,
    Some(<<"o", "o", "p", "s">>),
    Some(<<"{", "\"", "m", "s", "g", "\"", ":", "\"", "n", "o", "t", " ", "f", "o", "u", "n", "d", "\"", "}">>),
    Some(<<"{", "\"", "t", "o", "d", "o", "-", "i", "t", "e", "m", "s", "\"", ":", "[", "{", "\"", "i", "d", "\"", ":", "1", "}", "]", "}">>),
    Some(<<"{", "\"", "t", "i", "m", "e", "-", "e", "n", "t", "r", "i", "e", "s", "\"", ":", "[", "]", "}">>),
    Some(<<"{", "\"", "t", "a", "s", "k", "l", "i", "s", "t", "s", "\"", ":", "[", "{", "\"", "i", "d", "\"", ":", "1", "}", ",", "{", "\"", "i", "d", "\"", ":", "2", "}", "]", "}">>) }

UpstreamResponses ==
  [status : UpstreamStatuses, x_page : PageHeaders, x_pages : PageHeaders, body : Bodies]

\* Statuses a library error may carry into the handler's Err (query parsing,
\* transport, body decoding): the handler does not choose them.
LibErrorStatuses == {400, 422, 500}

\* ------------------------------------------------------------------ Query

RECURSIVE LastWins(_)
\* HashMap<String, Value> collected from pairs: a repeated name keeps its last value.
LastWins(pairs) ==
  IF Len(pairs) = 0 THEN <<>>
  ELSE IF \E j \in 2..Len(pairs) : pairs[j].k = pairs[1].k THEN LastWins(Tail(pairs))
  ELSE <<pairs[1]>> \o LastWins(Tail(pairs))

\* Query::default_page
default_page == 1

K_page == <<"p", "a", "g", "e">>
K_per_page == <<"p", "e", "r", "_", "p", "a", "g", "e">>
K_pageSize == <<"p", "a", "g", "e", "S", "i", "z", "e">>

\* req.query::<Query>(): page (default 1), per_page (optional), every other
\* parameter flattened into other. None when a typed field does not parse or
\* is given twice.
ParseQuery(q) ==
  LET pairs == query_pairs(IF IsSome(q) THEN Unwrap(q) ELSE <<>>)
      pages == SelectSeq(pairs, LAMBDA p : p.k = K_page)
      sizes == SelectSeq(pairs, LAMBDA p : p.k = K_per_page)
      rest  == SelectSeq(pairs, LAMBDA p : p.k # K_page /\ p.k # K_per_page)
      page  == IF Len(pages) = 0 THEN Some(default_page) ELSE ParseUsize(pages[1].v)
      size  == IF Len(sizes) = 0 THEN None ELSE ParseUsize(sizes[1].v)
  IN IF Len(pages) > 1 \/ Len(sizes) > 1 THEN None
     ELSE IF ~IsSome(page) \/ (Len(sizes) = 1 /\ ~IsSome(size)) THEN None
     ELSE Some([page |-> Unwrap(page), per_page |-> size, other |-> LastWins(rest)])

\* The orders in which a HashMap of n entries may be iterated.
Orders(n) == {p \in [1..n -> 1..n] : \A i, j \in 1..n : i # j => p[i] # p[j]}

\* Query serialised as a query string: page, then per_page under the name
\* pageSize when it is set, then the other parameters in the map's order.
SerializeQuery(query, order) ==
  LET fixed == <<K_page \o <<"=">> \o Itoa(query.page)>>
               \o (IF IsSome(query.per_page)
                   THEN <<K_pageSize \o <<"=">> \o Itoa(Unwrap(query.per_page))>>
                   ELSE <<>>)
      other == [i \in 1..Len(query.other) |->
                  PercentEncode(query.other[order[i]].k) \o <<"=">>
                  \o PercentEncode(query.other[order[i]].v)]
  IN Join(fixed \o other, <<"&">>)

\* Url::set_query: everything before the first "?" is kept, the query replaced.
SetQuery(url, q) ==
  LET i == IndexOf(url, "?") IN
  (IF i = 0 THEN url ELSE SubSeq(url, 1, i - 1)) \o <<"?">> \o q

\* UpstreamUrl without the .query(&query) call: the inbound string as it came.
UpstreamUrl_PassThrough(route, q, query, order) ==
  endpoint \o <<"/">> \o route \o (IF IsSome(q) THEN <<"?">> \o Unwrap(q) ELSE <<>>)

\* The URL of the upstream GET: format!("{}/{}{}", endpoint, route, params)
\* with params the inbound query string, then .query(&query) on the builder.
UpstreamUrl(route, q, query, order) ==
  LET params == IF IsSome(q) THEN <<"?">> \o Unwrap(q) ELSE <<>>
      url    == endpoint \o <<"/">> \o route \o params
  IN SetQuery(url, SerializeQuery(query, order))

\* ------------------------------------------------------------------ auth

\* ResolveAuth with the static key preferred to the inbound header.
ResolveAuth_KeyFirst(header, key) ==
  IF IsSome(key) THEN Some(<<"B", "a", "s", "i", "c", " ">> \o base64_encode(Unwrap(key) \o <<":", " ">>))
  ELSE header

\* ResolveAuth with an unset key read as the empty key.
ResolveAuth_EmptyKey(header, key) ==
  IF IsSome(header) THEN header
  ELSE Some(<<"B", "a", "s", "i", "c", " ">> \o base64_encode((IF IsSome(key) THEN Unwrap(key) ELSE <<>>) \o <<":", " ">>))

\* The Authorization value base_handler sends: the inbound header when there
\* is one, else Basic base64("<key>: "), None when there is neither.
ResolveAuth(header, key) ==
  IF IsSome(header) THEN header
  ELSE IF IsSome(key) THEN Some(<<"B", "a", "s", "i", "c", " ">> \o base64_encode(Unwrap(key) \o <<":", " ">>))
  ELSE None

\* ------------------------------------------------------------------ Meta and Links

\* ExtractMeta with an absent X-Pages read as one page.
ExtractMeta_DefaultTotal(resp) ==
  LET p == IF IsSome(resp.x_page) THEN ParseUsize(Unwrap(resp.x_page)) ELSE None
      page == IF IsSome(p) THEN Unwrap(p) ELSE 1
      t == IF IsSome(resp.x_pages) THEN ParseUsize(Unwrap(resp.x_pages)) ELSE Some(1)
  IN IF ~IsSome(t) THEN [err |-> "ParseInt", meta |-> None]
     ELSE [err |-> "", meta |-> Some([page |-> page, total_pages |-> Unwrap(t)])]

\* Meta from the response headers: page from X-Page (1 when absent or no
\* number), total_pages from X-Pages. err names the failure: X-Pages absent,
\* or X-Pages no number.
ExtractMeta(resp) ==
  LET p == IF IsSome(resp.x_page) THEN ParseUsize(Unwrap(resp.x_page)) ELSE None
      page == IF IsSome(p) THEN Unwrap(p) ELSE 1
      t == IF IsSome(resp.x_pages) THEN ParseUsize(Unwrap(resp.x_pages)) ELSE None
  IN IF ~IsSome(resp.x_pages) THEN [err |-> "MissingHeader", meta |-> None]
     ELSE IF ~IsSome(t) THEN [err |-> "ParseInt", meta |-> None]
     ELSE [err |-> "", meta |-> Some([page |-> page, total_pages |-> Unwrap(t)])]

\* Links::new with next also emitted on the last page.
Links_new_NextAtLast(path, q, meta) ==
  LET pairs  == SelectSeq(query_pairs(IF IsSome(q) THEN Unwrap(q) ELSE <<>>),
                          LAMBDA p : p.k # K_page)
      strs   == [i \in 1..Len(pairs) |-> pairs[i].k \o <<"=">> \o pairs[i].v]
      params == IF Len(strs) = 0 THEN <<>> ELSE Join(strs, <<"&">>) \o <<"&">>
      link   == path \o <<"?">> \o params
      at(n)  == link \o K_page \o <<"=">> \o Itoa(n)
  IN [ first |-> at(1),
       last  |-> at(meta.total_pages),
       next  |-> IF meta.page <= meta.total_pages THEN Some(at(meta.page + 1)) ELSE None,
       prev  |-> IF meta.page > 1 THEN Some(at(meta.page - 1)) ELSE None,
       curr  |-> at(meta.page) ]

\* Links::new
Links_new(path, q, meta) ==
  LET pairs  == SelectSeq(query_pairs(IF IsSome(q) THEN Unwrap(q) ELSE <<>>),
                          LAMBDA p : p.k # K_page)
      strs   == [i \in 1..Len(pairs) |-> pairs[i].k \o <<"=">> \o pairs[i].v]
      params == IF Len(strs) = 0 THEN <<>> ELSE Join(strs, <<"&">>) \o <<"&">>
      link   == path \o <<"?">> \o params
      at(n)  == link \o K_page \o <<"=">> \o Itoa(n)
  IN [ first |-> at(1),
       last  |-> at(meta.total_pages),
       next  |-> IF meta.page < meta.total_pages THEN Some(at(meta.page + 1)) ELSE None,
       prev  |-> IF meta.page > 1 THEN Some(at(meta.page - 1)) ELSE None,
       curr  |-> at(meta.page) ]

Rel(url, name) == <<"<">> \o url \o <<">", ";", "r", "e", "l", "=">> \o name

\* LinkHeader with next written before prev.
LinkHeader_NextBeforePrev(links) ==
  Rel(links.curr, <<"s", "e", "l", "f">>) \o <<",">> \o Rel(links.first, <<"f", "i", "r", "s", "t">>)
  \o (IF IsSome(links.next) THEN <<",">> \o Rel(Unwrap(links.next), <<"n", "e", "x", "t">>) ELSE <<>>)
  \o (IF IsSome(links.prev) THEN <<",">> \o Rel(Unwrap(links.prev), <<"p", "r", "e", "v">>) ELSE <<>>)
  \o <<",">> \o Rel(links.last, <<"l", "a", "s", "t">>)

\* The Link header base_handler formats from the links.
LinkHeader(links) ==
  Rel(links.curr, <<"s", "e", "l", "f">>) \o <<",">> \o Rel(links.first, <<"f", "i", "r", "s", "t">>)
  \o (IF IsSome(links.prev) THEN <<",">> \o Rel(Unwrap(links.prev), <<"p", "r", "e", "v">>) ELSE <<>>)
  \o (IF IsSome(links.next) THEN <<",">> \o Rel(Unwrap(links.next), <<"n", "e", "x", "t">>) ELSE <<>>)
  \o <<",">> \o Rel(links.last, <<"l", "a", "s", "t">>)

\* ------------------------------------------------------------------ bodies

\* body_json::<TeamworkApiResponse>(): the body is read, parsed, and must be an
\* object holding an array of objects under the route's envelope key. The
\* result is the items (the fields of the generated record types are not part
\* of this model: an item is kept as the upstream object), None on failure.
DecodeBody(body, key) ==
  LET j == IF IsSome(body) THEN JsonParse(Unwrap(body)) ELSE None
      d == IF IsSome(j) /\ JKind(Unwrap(j)) = "object" THEN JsonGet(Unwrap(j), key) ELSE None
  IN IF IsSome(d) /\ JKind(Unwrap(d)) = "array"
        /\ \A i \in 1..Len(JPayload(Unwrap(d))) : JKind(JPayload(Unwrap(d))[i]) = "object"
     THEN Some(JPayload(Unwrap(d)))
     ELSE None

\* The body kept in Error::TeamworkError: the upstream body parsed as JSON, the
\* body as a JSON string when it is no JSON, None when it cannot be read.
ErrorBody(body) ==
  IF ~IsSome(body) THEN None
  ELSE LET j == JsonParse(Unwrap(body)) IN
       IF IsSome(j) THEN j ELSE Some(JStr(Unwrap(body)))

JOpt(o) == IF IsSome(o) THEN Unwrap(o) ELSE JNull
JOptStr(o) == IF IsSome(o) THEN JStr(Unwrap(o)) ELSE JNull

\* ApiResponse serialised by Body::from_json.
SuccessBody(data, meta, links) ==
  JObj(<< <<<<"d", "a", "t", "a">>, JArr(data)>>,
          <<<<"m", "e", "t", "a">>, JObj(<< <<<<"p", "a", "g", "e">>, JNum(meta.page)>>,
                              <<<<"t", "o", "t", "a", "l", "_", "p", "a", "g", "e", "s">>, JNum(meta.total_pages)>> >>)>>,
          <<<<"l", "i", "n", "k", "s">>, JObj(<< <<<<"f", "i", "r", "s", "t">>, JStr(links.first)>>,
                               <<<<"l", "a", "s", "t">>, JStr(links.last)>>,
                               <<<<"n", "e", "x", "t">>, JOptStr(links.next)>>,
                               <<<<"p", "r", "e", "v">>, JOptStr(links.prev)>>,
                               <<<<"s", "e", "l", "f">>, JStr(links.curr)>> >>)>> >>)

\* The json! body error_handler sets for a TeamworkError.
ErrorEnvelope(status, message, body) ==
  JObj(<< <<<<"e", "r", "r", "o", "r">>, JObj(<< <<<<"c", "o", "d", "e">>, JNum(status)>>,
                               <<<<"m", "e", "s", "s", "a", "g", "e">>, JStr(message)>>,
                               <<<<"t", "e", "a", "m", "w", "o", "r", "k", "_", "r", "e", "s", "p", "o", "n", "s", "e">>, JOpt(body)>> >>)>> >>)

\* ------------------------------------------------------------------ state

VARIABLES
  req,       \* the inbound request: [auth, path, query]
  api_key,   \* the configured static key, an Option
  pc,        \* where base_handler is, or how it ended
  auth,      \* the resolved Authorization value, an Option
  gets,      \* upstream GETs issued for this request
  outbound,  \* the upstream request sent, an Option of [url, authorization]
  upstream,  \* the upstream response, an Option
  meta,      \* Option of Meta
  data,      \* Option of the decoded items
  links,     \* Option of Links
  error,     \* the Err base_handler returned, an Option of [kind, status, tw]
  res,       \* the client response, an Option of [status, body, link]
  filtered,  \* whether error_handler has run on the response
  todo,      \* generate_schema: the (name, sample) items not yet generated
  structs,   \* Builder.structs: record name -> Object
  stack,     \* the open calls of create_object_from_map, innermost last
  panicked   \* whether the generation has panicked

\* The variables of a request and those of the schema generation.
hvars == <<req, api_key, pc, auth, gets, outbound, upstream, meta, data, links, error, res, filtered>>
svars == <<todo, structs, stack, panicked>>
vars == <<hvars, svars>>

Init ==
  /\ req \in [auth : AuthHeaders, path : {Routes[i].path : i \in 1..Len(Routes)},
              query : QueryStrings]
  /\ api_key \in ApiKeys
  /\ pc = "Start"
  /\ auth = None
  /\ gets = 0
  /\ outbound = None
  /\ upstream = None
  /\ meta = None
  /\ data = None
  /\ links = None
  /\ error = None
  /\ res = None
  /\ filtered = FALSE
  /\ todo = <<>>
  /\ structs = <<>>
  /\ stack = <<>>
  /\ panicked = FALSE

\* An Err of base_handler. kind names its origin, status is the status the
\* tide::Error carries, tw is the payload of Error::TeamworkError when it is one.
Err(kind, status, tw) == [kind |-> kind, status |-> status, tw |-> tw]

\* The response the server builds from an Err before the After middleware
\* runs: the error's status and no body.
ErrorResponse(e) == [status |-> e.status, body |-> None, link |-> None]

\* base_handler returns Err(e) at state to.
Fail(e, to) ==
  /\ error' = Some(e)
  /\ res' = Some(ErrorResponse(e))
  /\ pc' = to

\* Step 1, auth resolution.
AuthResolution ==
  /\ pc = "Start"
  /\ LET a == ResolveAuth(req.auth, api_key) IN
     IF IsSome(a)
     THEN /\ auth' = a
          /\ pc' = "AuthResolved"
          /\ UNCHANGED <<error, res>>
     ELSE /\ Fail(Err("AuthMissing", 400, None), "FailedInternal")
          /\ UNCHANGED auth
  /\ UNCHANGED <<req, api_key, gets, outbound, upstream, meta, data, links, filtered>>
  /\ UNCHANGED svars

\* Step 2, forwarding: the query is parsed, the URL built and one GET sent;
\* the handler then awaits the answer.
Forwarding ==
  /\ pc = "AuthResolved"
  /\ LET query == ParseQuery(req.query) IN
     IF ~IsSome(query)
     THEN /\ \E s \in LibErrorStatuses : Fail(Err("Query", s, None), "FailedInternal")
          /\ UNCHANGED <<gets, outbound>>
     ELSE /\ gets' = gets + 1
          /\ \E order \in Orders(Len(Unwrap(query).other)) :
               outbound' = Some([url |-> UpstreamUrl(RouteOf(req.path).teamwork_route,
                                                     req.query, Unwrap(query), order),
                                 authorization |-> Unwrap(auth)])
          /\ pc' = "AwaitingUpstream"
          /\ UNCHANGED <<error, res>>
  /\ UNCHANGED <<req, api_key, auth, upstream, meta, data, links, filtered>>
  /\ UNCHANGED svars

\* send().await resumes: the upstream answered, or the transport failed.
Answer ==
  /\ pc = "AwaitingUpstream"
  /\ \E answered \in BOOLEAN :
       IF answered
       THEN /\ upstream' \in {Some(r) : r \in UpstreamResponses}
            /\ pc' = "Forwarded"
            /\ UNCHANGED <<error, res>>
       ELSE /\ \E s \in LibErrorStatuses : Fail(Err("Transport", s, None), "FailedInternal")
            /\ UNCHANGED upstream
  /\ UNCHANGED <<req, api_key, auth, gets, outbound, meta, data, links, filtered>>
  /\ UNCHANGED svars

\* A status check that lets every upstream status through.
StatusCheck_NoCheck ==
  /\ pc = "Forwarded"
  /\ pc' = "StatusOK"
  /\ UNCHANGED <<error, res>>
  /\ UNCHANGED <<req, api_key, auth, gets, outbound, upstream, meta, data, links, filtered>>
  /\ UNCHANGED svars

\* Step 3, status check.
StatusCheck ==
  /\ pc = "Forwarded"
  /\ LET r == Unwrap(upstream) IN
     IF is_success(r.status)
     THEN /\ pc' = "StatusOK"
          /\ UNCHANGED <<error, res>>
     ELSE Fail(Err("TeamworkError", 500,
                   Some([status |-> r.status, message |-> canonical_reason(r.status),
                         body |-> ErrorBody(r.body)])),
               "FailedUpstream")
  /\ UNCHANGED <<req, api_key, auth, gets, outbound, upstream, meta, data, links, filtered>>
  /\ UNCHANGED svars

\* Step 4, pagination extraction.
PaginationExtraction ==
  /\ pc = "StatusOK"
  /\ LET m == ExtractMeta(Unwrap(upstream)) IN
     IF IsSome(m.meta)
     THEN /\ meta' = m.meta
          /\ pc' = "MetaExtracted"
          /\ UNCHANGED <<error, res>>
     ELSE /\ Fail(Err(m.err, 500, None), "FailedInternal")
          /\ UNCHANGED meta
  /\ UNCHANGED <<req, api_key, auth, gets, outbound, upstream, data, links, filtered>>
  /\ UNCHANGED svars

\* Step 5, body decode.
BodyDecode ==
  /\ pc = "MetaExtracted"
  /\ LET d == DecodeBody(Unwrap(upstream).body, RouteOf(req.path).response_key) IN
     IF IsSome(d)
     THEN /\ data' = d
          /\ pc' = "BodyDecoded"
          /\ UNCHANGED <<error, res>>
     ELSE /\ \E s \in LibErrorStatuses : Fail(Err("Decode", s, None), "FailedInternal")
          /\ UNCHANGED data
  /\ UNCHANGED <<req, api_key, auth, gets, outbound, upstream, meta, links, filtered>>
  /\ UNCHANGED svars

\* Step 6, link synthesis.
LinkSynthesis ==
  /\ pc = "BodyDecoded"
  /\ links' = Some(Links_new(req.path, req.query, Unwrap(meta)))
  /\ pc' = "LinksBuilt"
  /\ UNCHANGED <<req, api_key, auth, gets, outbound, upstream, meta, data, error, res, filtered>>
  /\ UNCHANGED svars

\* Step 7, envelope build: the 200 response with the Link header.
EnvelopeBuild ==
  /\ pc = "LinksBuilt"
  /\ res' = Some([status |-> 200,
                  body |-> Some(SuccessBody(Unwrap(data), Unwrap(meta), Unwrap(links))),
                  link |-> Some(LinkHeader(Unwrap(links)))])
  /\ pc' = "Done"
  /\ UNCHANGED <<req, api_key, auth, gets, outbound, upstream, meta, data, links, error, filtered>>
  /\ UNCHANGED svars

\* error_handler that sets the envelope and leaves the status as it was.
error_handler_KeepStatus(r, e) ==
  IF IsSome(e) /\ IsSome(Unwrap(e).tw)
  THEN LET tw == Unwrap(Unwrap(e).tw) IN
       [r EXCEPT !.body = Some(ErrorEnvelope(tw.status, tw.message, tw.body))]
  ELSE r

\* error_handler that wraps every failure in an envelope.
error_handler_EnvelopeAll(r, e) ==
  IF IsSome(e) /\ IsSome(Unwrap(e).tw)
  THEN LET tw == Unwrap(Unwrap(e).tw) IN
       [r EXCEPT !.status = tw.status,
                 !.body = Some(ErrorEnvelope(tw.status, tw.message, tw.body))]
  ELSE IF IsSome(e)
  THEN [r EXCEPT !.status = 500,
                 !.body = Some(ErrorEnvelope(500, canonical_reason(500), None))]
  ELSE r

\* error_handler applied to a response: a TeamworkError sets the status and the
\* JSON envelope, anything else passes through.
error_handler(r, e) ==
  IF IsSome(e) /\ IsSome(Unwrap(e).tw)
  THEN LET tw == Unwrap(Unwrap(e).tw) IN
       [r EXCEPT !.status = tw.status,
                 !.body = Some(ErrorEnvelope(tw.status, tw.message, tw.body))]
  ELSE r

\* The After middleware: error_handler runs once on what base_handler returned.
After ==
  /\ pc \in {"Done", "FailedUpstream", "FailedInternal"}
  /\ ~filtered
  /\ res' = Some(error_handler(Unwrap(res), error))
  /\ filtered' = TRUE
  /\ UNCHANGED <<req, api_key, pc, auth, gets, outbound, upstream, meta, data, links, error>>
  /\ UNCHANGED svars

Next ==
  \/ AuthResolution
  \/ Forwarding
  \/ Answer
  \/ StatusCheck
  \/ PaginationExtraction
  \/ BodyDecode
  \/ LinkSynthesis
  \/ EnvelopeBuild
  \/ After

Spec == Init /\ [][Next]_vars

\* ------------------------------------------------------------------ schema generation

IsUpper(c) == LET n == Ord(c) IN 65 <= n /\ n <= 90
IsLower(c) == LET n == Ord(c) IN 97 <= n /\ n <= 122
ToUpper(c) == IF IsLower(c) THEN Chr(Ord(c) - 32) ELSE c
ToLower(c) == IF IsUpper(c) THEN Chr(Ord(c) + 32) ELSE c

\* The character loop of to_pascal_case: a character that is neither letter nor
\* digit ends a word and is dropped, a digit is kept and ends a word, the first
\* letter of a word and an upper-case letter after a lower-case one are written
\* in upper case, every other letter in lower case.
RECURSIVE CamelLike(_, _, _, _, _)
CamelLike(s, i, new_word, last_char, found) ==
  IF i > Len(s) THEN <<>>
  ELSE LET c == s[i] IN
       IF ~IsAlnum(c)
       THEN CamelLike(s, i + 1, new_word \/ found, last_char, found)
       ELSE IF IsDigit(c)
       THEN <<c>> \o CamelLike(s, i + 1, TRUE, last_char, TRUE)
       ELSE IF new_word \/ (IsLower(last_char) /\ IsUpper(c))
       THEN <<ToUpper(c)>> \o CamelLike(s, i + 1, FALSE, last_char, TRUE)
       ELSE <<ToLower(c)>> \o CamelLike(s, i + 1, new_word, c, TRUE)

\* str::to_pascal_case: "boardColumn" and "board-column" give "BoardColumn".
to_pascal_case(s) == CamelLike(s, 1, TRUE, " ", FALSE)

IsVowel(c) == c \in {"a", "e", "i", "o", "u", "y"}

\* str::to_singular, for the endings the field names have: -ss stays, -xes,
\* -ches, -sses, -shes lose "es", consonant + "ies" becomes "y", any other
\* final "s" is dropped, any other word stays.
to_singular(s) ==
  LET n == Len(s) IN
  IF EndsWith(s, <<"s", "s", "e", "s">>) \/ EndsWith(s, <<"s", "h", "e", "s">>) \/ EndsWith(s, <<"c", "h", "e", "s">>)
     \/ EndsWith(s, <<"x", "e", "s">>)
  THEN SubSeq(s, 1, n - 2)
  ELSE IF EndsWith(s, <<"s", "s">>) THEN s
  ELSE IF EndsWith(s, <<"i", "e", "s">>) /\ n > 3 /\ ~IsVowel(s[n - 3])
  THEN SubSeq(s, 1, n - 3) \o <<"y">>
  ELSE IF EndsWith(s, <<"s">>) THEN SubSeq(s, 1, n - 1)
  ELSE s

\* A serde_json Number that holds an f64: the sample wrote it with a fraction.
\* whole and frac are the digits before and after the point.
JF64(whole, frac) == <<"f64", <<whole, frac>>>>
is_f64(v) == JKind(v) = "f64"
is_number(v) == JKind(v) \in {"number", "f64"}
is_object(v) == JKind(v) = "object"

\* The types a field is given, as the tokens inside Option<...>.
TyString == <<"String", <<>>>>
TyInteger == <<"i64", <<>>>>
TyFloat == <<"f64", <<>>>>
TyBoolean == <<"bool", <<>>>>
TyRaw == <<"serde_json::Value", <<>>>>
TyRecord(name) == <<"Record", name>>
TyVec(name) == <<"Vec", name>>
Option(t) == <<"Option", t>>

\* Whether the value of a field is given a record of its own: an object, or an
\* array whose first element is an object.
IsObjectArray(v) ==
  /\ JKind(v) = "array"
  /\ Len(JPayload(v)) > 0
  /\ is_object(JPayload(v)[1])
NeedsRecord(v) == is_object(v) \/ IsObjectArray(v)

\* obj_name: the name under which the record of a field is looked up.
obj_name(old_name, v) ==
  IF is_object(v) THEN to_pascal_case(old_name)
  ELSE to_pascal_case(to_singular(old_name))

\* inner_obj: the sample the record of a field is generated from.
inner_obj(v) == IF is_object(v) THEN JPayload(v) ELSE JPayload(JPayload(v)[1])

\* A field type that takes every number for an f64.
FieldType_NumbersAsFloat(v, record) ==
  IF JKind(v) = "string" THEN Option(TyString)
  ELSE IF is_number(v) THEN Option(TyFloat)
  ELSE IF is_object(v) THEN Option(TyRecord(record))
  ELSE IF JKind(v) = "bool" THEN Option(TyBoolean)
  ELSE IF IsObjectArray(v) THEN Option(TyVec(record))
  ELSE Option(TyRaw)

\* The match on the value of a field: its type. record is the name of the
\* record found under obj_name, read only for an object and an array of
\* objects.
FieldType(v, record) ==
  IF JKind(v) = "string" THEN Option(TyString)
  ELSE IF is_number(v) THEN (IF is_f64(v) THEN Option(TyFloat) ELSE Option(TyInteger))
  ELSE IF is_object(v) THEN Option(TyRecord(record))
  ELSE IF JKind(v) = "bool" THEN Option(TyBoolean)
  ELSE IF IsObjectArray(v) THEN Option(TyVec(record))
  ELSE Option(TyRaw)

\* A Field: the provider's key and the type.
Field(old_name, ty) == [old_name |-> old_name, ty |-> ty]

\* An Object: the record name and its fields in order.
Object(name, fields) == [name |-> name, fields |-> fields]

\* The sample objects, their members in the order the map yields them (sorted
\* by key, which is also the order they are written in).
SampleTask ==
  JObj(<< <<<<"b", "o", "a", "r", "d", "C", "o", "l", "u", "m", "n">>, JObj(<< <<<<"c", "o", "l", "o", "r">>, JStr(<<"E", "7">>)>>, <<<<"i", "d">>, JNum(1)>> >>)>>,
          <<<<"c", "a", "n", "C", "o", "m", "p", "l", "e", "t", "e">>, JBool(FALSE)>>,
          <<<<"c", "o", "n", "t", "e", "n", "t">>, JStr(<<"x">>)>>,
          <<<<"d", "e", "a", "d", "l", "i", "n", "e">>, JNull>>,
          <<<<"i", "d">>, JNum(17)>>,
          <<<<"p", "a", "r", "e", "n", "t", "-", "t", "a", "s", "k">>, JObj(<< <<<<"i", "d">>, JStr(<<"1", "7">>)>> >>)>>,
          <<<<"p", "r", "e", "d", "e", "c", "e", "s", "s", "o", "r", "s">>, JArr(<<>>)>>,
          <<<<"p", "r", "o", "g", "r", "e", "s", "s">>, JF64(0, 5)>>,
          <<<<"t", "a", "g", "s">>, JArr(<< JObj(<< <<<<"c", "o", "l", "o", "r">>, JStr(<<"f", "4">>)>>, <<<<"i", "d">>, JNum(3)>> >>),
                              JNum(4) >>)>>,
          <<<<"w", "a", "t", "c", "h", "e", "r", "s">>, JArr(<< JNum(1), JObj(<< <<<<"i", "d">>, JNum(2)>> >>) >>)>> >>)

SampleTimeEntry ==
  JObj(<< <<<<"h", "o", "u", "r", "s">>, JF64(1, 0)>>,
          <<<<"i", "d">>, JStr(<<"1">>)>>,
          <<<<"t", "a", "g", "s">>, JArr(<< JObj(<< <<<<"n", "a", "m", "e">>, JStr(<<"t">>)>> >>) >>)>>,
          <<<<"t", "a", "s", "k">>, JObj(<< <<<<"i", "d">>, JNum(5)>> >>)>> >>)

SampleTag ==
  JObj(<< <<<<"l", "a", "b", "e", "l">>, JStr(<<"x">>)>>,
          <<<<"p", "r", "o", "j", "e", "c", "t", "I", "d">>, JNum(0)>> >>)

\* The (name, sample) items a schema list is made of.
Resources ==
  << [name |-> <<"T", "a", "s", "k">>, json_obj |-> SampleTask],
     [name |-> <<"T", "i", "m", "e", "E", "n", "t", "r", "y">>, json_obj |-> SampleTimeEntry],
     [name |-> <<"T", "a", "g">>, json_obj |-> SampleTag] >>

\* The schema lists of one to MaxSamples items.
SchemaLists ==
  UNION { {[i \in 1..n |-> Resources[f[i]]] : f \in [1..n -> 1..Len(Resources)]}
          : n \in 1..MaxSamples }

\* HashMap::contains_key.
contains_key(map, key) == key \in DOMAIN map

\* HashMap::insert: the entry of key is set, replacing the one there was.
insert(map, key, value) ==
  [k \in DOMAIN map \cup {key} |-> IF k = key THEN value ELSE map[k]]

\* One open call of create_object_from_map: its arguments, the index of the
\* field its loop is at, the fields pushed so far, and whether the nested call
\* for that field has returned.
Frame(name, input_fields) ==
  [name |-> name, input_fields |-> input_fields, i |-> 1, fields |-> <<>>, called |-> FALSE]

Top == stack[Len(stack)]
SetTop(f) == [stack EXCEPT ![Len(stack)] = f]

\* The state before generate_schema builds anything; no request is in flight.
SchemaInit ==
  /\ todo \in SchemaLists
  /\ structs = <<>>
  /\ stack = <<>>
  /\ panicked = FALSE
  /\ req = [auth |-> None, path |-> Routes[1].path, query |-> None]
  /\ api_key = None
  /\ pc = "Start"
  /\ auth = None
  /\ gets = 0
  /\ outbound = None
  /\ upstream = None
  /\ meta = None
  /\ data = None
  /\ links = None
  /\ error = None
  /\ res = None
  /\ filtered = FALSE

\* generate_schema calls create_object_from_map for the next item of the list.
StartResource ==
  /\ ~panicked
  /\ stack = <<>>
  /\ todo # <<>>
  /\ stack' = <<Frame(todo[1].name, JPayload(todo[1].json_obj))>>
  /\ todo' = Tail(todo)
  /\ UNCHANGED <<structs, panicked>>
  /\ UNCHANGED hvars

\* One turn of the loop over input_fields for a value that needs no nested
\* call: a scalar, an array without a leading object, or a value whose record
\* is in structs or has just been generated. The record is read with
\* get(..).unwrap(), which panics when it is not there.
VisitField ==
  /\ ~panicked
  /\ stack # <<>>
  /\ Top.i <= Len(Top.input_fields)
  /\ LET old_name == Top.input_fields[Top.i][1]
         v        == Top.input_fields[Top.i][2]
         n        == obj_name(old_name, v)
     IN /\ ~NeedsRecord(v) \/ Top.called \/ contains_key(structs, n)
        /\ IF NeedsRecord(v) /\ n \notin DOMAIN structs
           THEN /\ panicked' = TRUE
                /\ UNCHANGED stack
           ELSE /\ stack' = SetTop([Top EXCEPT
                       !.fields = Append(@, Field(old_name,
                                    FieldType(v, IF NeedsRecord(v) THEN structs[n].name
                                                 ELSE <<>>))),
                       !.i = @ + 1,
                       !.called = FALSE])
                /\ UNCHANGED panicked
  /\ UNCHANGED <<todo, structs>>
  /\ UNCHANGED hvars

\* The recursive call for an object, or an array led by an object, whose
\* obj_name is not a key of structs.
NestedCall ==
  /\ ~panicked
  /\ stack # <<>>
  /\ Top.i <= Len(Top.input_fields)
  /\ LET old_name == Top.input_fields[Top.i][1]
         v        == Top.input_fields[Top.i][2]
         n        == obj_name(old_name, v)
     IN /\ NeedsRecord(v)
        /\ ~Top.called
        /\ ~contains_key(structs, n)
        /\ stack' = Append(SetTop([Top EXCEPT !.called = TRUE]), Frame(n, inner_obj(v)))
  /\ UNCHANGED <<todo, structs, panicked>>
  /\ UNCHANGED hvars

\* The end of create_object_from_map: the Object is inserted under its name in
\* pascal case and the call returns.
InsertObject ==
  /\ ~panicked
  /\ stack # <<>>
  /\ Top.i > Len(Top.input_fields)
  /\ LET name == to_pascal_case(Top.name) IN
       structs' = insert(structs, name, Object(name, Top.fields))
  /\ stack' = SubSeq(stack, 1, Len(stack) - 1)
  /\ UNCHANGED <<todo, panicked>>
  /\ UNCHANGED hvars

SchemaNext ==
  \/ StartResource
  \/ VisitField
  \/ NestedCall
  \/ InsertObject

\* One run of generate_schema over a schema list.
SpecSchema == SchemaInit /\ [][SchemaNext]_vars

\* ------------------------------------------------------------------ properties

\* The base64 alphabet index of a character.
B64Val(c) == (CHOOSE i \in 1..64 : B64[i] = c) - 1

\* Base64 text back to the characters it encodes.
RECURSIVE Base64Decode(_)
Base64Decode(s) ==
  IF Len(s) < 4 THEN <<>>
  ELSE LET pad == IF s[3] = "=" THEN 2 ELSE IF s[4] = "=" THEN 1 ELSE 0
           v   == B64Val(s[1]) * 262144 + B64Val(s[2]) * 4096
                  + (IF pad >= 2 THEN 0 ELSE B64Val(s[3]) * 64)
                  + (IF pad >= 1 THEN 0 ELSE B64Val(s[4]))
           bs  == <<Chr(v \div 65536)>>
                  \o (IF pad >= 2 THEN <<>> ELSE <<Chr((v \div 256) % 256)>>)
                  \o (IF pad >= 1 THEN <<>> ELSE <<Chr(v % 256)>>)
       IN bs \o Base64Decode(Tail2(s, 5))

\* The query string of a URL: what follows the first "?".
UrlQuery(url) == LET i == IndexOf(url, "?") IN IF i = 0 THEN <<>> ELSE Tail2(url, i + 1)
\* The URL up to its query string.
UrlBase(url) == LET i == IndexOf(url, "?") IN IF i = 0 THEN url ELSE SubSeq(url, 1, i - 1)

PairSet(pairs) == {pairs[i] : i \in 1..Len(pairs)}
InboundPairs == query_pairs(IF IsSome(req.query) THEN Unwrap(req.query) ELSE <<>>)

\* The GET has just been sent (it is the same one in every later state).
JustSent == pc = "AwaitingUpstream"

\* C1: the Authorization header of the upstream GET is the inbound header
\* verbatim when the request has one, with or without a configured key; else it
\* is "Basic " followed by text that base64-decodes to the key followed by ": "
\* (for the key "abc": "Basic YWJjOiA=").
C1_AuthHeaderUpstream ==
  JustSent =>
    LET sent == Unwrap(outbound).authorization IN
    IF IsSome(req.auth) THEN sent = Unwrap(req.auth)
    ELSE /\ IsSome(api_key)
         /\ StartsWith(sent, <<"B", "a", "s", "i", "c", " ">>)
         /\ Base64Decode(Tail2(sent, 7)) = Unwrap(api_key) \o <<":", " ">>
         /\ (api_key = Some(<<"a", "b", "c">>) => sent = <<"B", "a", "s", "i", "c", " ", "Y", "W", "J", "j", "O", "i", "A", "=">>)

\* C1 witness: a GET was sent for a request without Authorization header,
\* under a configured key.
C1_Witness == JustSent /\ ~IsSome(req.auth) /\ api_key = Some(<<"a", "b", "c">>)

\* C2: at most one upstream GET is issued for a request, whatever the outcome,
\* and none when the request has no Authorization header and no key is
\* configured.
C2_AtMostOneGet ==
  /\ gets <= 1
  /\ (~IsSome(req.auth) /\ ~IsSome(api_key)) => gets = 0 /\ ~IsSome(outbound)
  /\ (filtered /\ pc # "Done" /\ IsSome(outbound)) => gets = 1

\* C2 witness: the response of a failed request is out, after exactly one GET
\* whose transport failed.
C2_Witness ==
  filtered /\ gets = 1 /\ IsSome(error) /\ Unwrap(error).kind = "Transport"

\* C2 witness of the other case: a request without credentials has ended.
C2_WitnessNoAuth == filtered /\ ~IsSome(req.auth) /\ ~IsSome(api_key) /\ gets = 0

\* C3 as stated: the upstream URL is base, route path and the inbound
\* parameters: the same names and values, none added, dropped or renamed.
C3_QueryUntouched ==
  JustSent =>
    LET url == Unwrap(outbound).url IN
    /\ UrlBase(url) = endpoint \o <<"/">> \o RouteOf(req.path).teamwork_route
    /\ query_pairs(UrlQuery(url)) = InboundPairs

\* The number a page or size parameter carries.
NumberOf(pairs, name) ==
  LET hits == SelectSeq(pairs, LAMBDA p : p.k = name) IN
  IF Len(hits) = 0 THEN None ELSE ParseUsize(hits[1].v)

\* C3 amended: the upstream URL is base, "/", route path and the query
\* re-serialised from the parsed Query: exactly one page parameter (the inbound
\* page, 1 when there is none), the inbound per_page under the name pageSize,
\* every other inbound parameter with its name and value (names being
\* distinct), and nothing else.
C3_QueryReserialized ==
  JustSent =>
    LET url == Unwrap(outbound).url
        out == query_pairs(UrlQuery(url))
        inb == InboundPairs
        typed == {K_page, K_per_page}
    IN /\ UrlBase(url) = endpoint \o <<"/">> \o RouteOf(req.path).teamwork_route
       /\ Len(SelectSeq(out, LAMBDA p : p.k = K_page)) = 1
       /\ NumberOf(out, K_page)
            = (IF NumberOf(inb, K_page) = None THEN Some(1) ELSE NumberOf(inb, K_page))
       /\ NumberOf(out, K_pageSize) = NumberOf(inb, K_per_page)
       /\ \A p \in PairSet(out) : p.k # K_per_page
       /\ {p \in PairSet(out) : p.k \notin {K_page, K_pageSize}}
            = {p \in PairSet(inb) : p.k \notin typed}

\* C3 witness: a GET was sent for a request that asked for a page size.
C3_Witness ==
  /\ JustSent
  /\ req.query = Some(<<"p", "e", "r", "_", "p", "a", "g", "e", "=", "5">>)
  /\ UrlQuery(Unwrap(outbound).url) = <<"p", "a", "g", "e", "=", "1", "&", "p", "a", "g", "e", "S", "i", "z", "e", "=", "5">>

\* The upstream answered with a non-2xx status and the client response is out.
UpstreamFailed == filtered /\ IsSome(upstream) /\ ~is_success(Unwrap(upstream).status)

\* A member of the "error" object of the client response body, None when the
\* body is no such envelope.
ErrField(name) ==
  LET body == Unwrap(res).body
      e    == IF IsSome(body) /\ JKind(Unwrap(body)) = "object"
              THEN JsonGet(Unwrap(body), <<"e", "r", "r", "o", "r">>) ELSE None
  IN IF IsSome(e) /\ JKind(Unwrap(e)) = "object" THEN JsonGet(Unwrap(e), name) ELSE None

\* The upstream body parsed as JSON, None when it cannot be read or parsed.
UpstreamJson ==
  LET b == Unwrap(upstream).body IN IF IsSome(b) THEN JsonParse(Unwrap(b)) ELSE None

\* C4 as stated: after a non-2xx upstream status S the client response has
\* status S and the body {"error": {"code": S, "message": reason of S,
\* "teamwork_response": B}}, B the upstream body parsed as JSON when it parses
\* and the raw body as a string otherwise.
C4_UpstreamErrorMirrored ==
  UpstreamFailed =>
    LET up == Unwrap(upstream)
        tr == ErrField(<<"t", "e", "a", "m", "w", "o", "r", "k", "_", "r", "e", "s", "p", "o", "n", "s", "e">>)
    IN /\ Unwrap(res).status = up.status
       /\ ErrField(<<"c", "o", "d", "e">>) = Some(JNum(up.status))
       /\ ErrField(<<"m", "e", "s", "s", "a", "g", "e">>) = Some(JStr(canonical_reason(up.status)))
       /\ IsSome(tr)
       /\ IF IsSome(UpstreamJson) THEN tr = UpstreamJson
          ELSE /\ JKind(Unwrap(tr)) = "string"
               /\ IsSome(up.body) => JPayload(Unwrap(tr)) = Unwrap(up.body)

\* C4 amended: as C4, and teamwork_response is null when the upstream body
\* cannot be read as a string.
C4_UpstreamErrorEnvelope ==
  UpstreamFailed =>
    LET up == Unwrap(upstream)
        tr == ErrField(<<"t", "e", "a", "m", "w", "o", "r", "k", "_", "r", "e", "s", "p", "o", "n", "s", "e">>)
    IN /\ Unwrap(res).status = up.status
       /\ ErrField(<<"c", "o", "d", "e">>) = Some(JNum(up.status))
       /\ ErrField(<<"m", "e", "s", "s", "a", "g", "e">>) = Some(JStr(canonical_reason(up.status)))
       /\ up.status = 404 => ErrField(<<"m", "e", "s", "s", "a", "g", "e">>) = Some(JStr(<<"N", "o", "t", " ", "F", "o", "u", "n", "d">>))
       /\ Len(JPayload(Unwrap(Unwrap(res).body))) = 1
       /\ IF IsSome(UpstreamJson) THEN tr = UpstreamJson
          ELSE IF IsSome(up.body) THEN tr = Some(JStr(Unwrap(up.body)))
          ELSE tr = Some(JNull)

\* C4 witness: the upstream answered 404 with {"msg":"not found"} and the
\* client response carries that object.
C4_Witness ==
  /\ UpstreamFailed
  /\ Unwrap(upstream).status = 404
  /\ Unwrap(upstream).body = Some(<<"{", "\"", "m", "s", "g", "\"", ":", "\"", "n", "o", "t", " ", "f", "o", "u", "n", "d", "\"", "}">>)
  /\ ErrField(<<"t", "e", "a", "m", "w", "o", "r", "k", "_", "r", "e", "s", "p", "o", "n", "s", "e">>)
       = Some(JObj(<< <<<<"m", "s", "g">>, JStr(<<"n", "o", "t", " ", "f", "o", "u", "n", "d">>)>> >>))

\* base_handler failed with something else than an upstream non-2xx status and
\* the client response is out.
InternalFailed == filtered /\ IsSome(error) /\ Unwrap(error).kind # "TeamworkError"

NoTotalPages ==
  /\ IsSome(upstream)
  /\ is_success(Unwrap(upstream).status)
  /\ ~IsSome(Unwrap(upstream).x_pages)

\* C6: a 2xx upstream response without X-Pages never gives a success response:
\* no Meta is built, nothing after the pagination step runs, and the request
\* fails with the missing-header error and status 500.
C6_MissingTotalFails ==
  NoTotalPages =>
    /\ meta = None /\ data = None /\ links = None
    /\ pc \in {"Forwarded", "StatusOK", "FailedInternal"}
    /\ pc = "FailedInternal" =>
         /\ Unwrap(error).kind = "MissingHeader"
         /\ Unwrap(res).status = 500
         /\ Unwrap(res).body = None

\* C6 witness: such a response was answered to the client.
C6_Witness == NoTotalPages /\ filtered /\ Unwrap(upstream).status = 200

RECURSIVE DigitRunStart(_, _)
DigitRunStart(s, i) == IF i >= 1 /\ IsDigit(s[i]) THEN DigitRunStart(s, i - 1) ELSE i + 1

\* The page a link points at: the number of the page parameter the link ends
\* with, None when it does not end with one.
LinkPage(l) ==
  LET j == DigitRunStart(l, Len(l))
      head == SubSeq(l, 1, j - 1)
  IN IF EndsWith(head, <<"?", "p", "a", "g", "e", "=">>) \/ EndsWith(head, <<"&", "p", "a", "g", "e", "=">>)
     THEN ParseUsize(Tail2(l, j))
     ELSE None

\* C7: first points at page 1, last at total_pages, self at page; prev points
\* at page - 1 and is present exactly when page > 1; next points at page + 1
\* and is present exactly when page < total_pages; with page = 1 and
\* total_pages = 1 there is no prev and no next and first, last and self are
\* the same URL.
C7_LinkPages ==
  IsSome(links) =>
    LET l == Unwrap(links)
        m == Unwrap(meta)
    IN /\ LinkPage(l.first) = Some(1)
       /\ LinkPage(l.last) = Some(m.total_pages)
       /\ LinkPage(l.curr) = Some(m.page)
       /\ IsSome(l.prev) <=> m.page > 1
       /\ IsSome(l.prev) => LinkPage(Unwrap(l.prev)) = Some(m.page - 1)
       /\ IsSome(l.next) <=> m.page < m.total_pages
       /\ IsSome(l.next) => LinkPage(Unwrap(l.next)) = Some(m.page + 1)
       /\ (m.page = 1 /\ m.total_pages = 1) =>
            /\ l.prev = None /\ l.next = None
            /\ l.first = l.last /\ l.last = l.curr

\* C7 witness: links were built for page 2 of 3, with both prev and next.
C7_Witness ==
  /\ IsSome(links)
  /\ Unwrap(meta) = [page |-> 2, total_pages |-> 3]
  /\ IsSome(Unwrap(links).prev) /\ IsSome(Unwrap(links).next)

\* C7 witness of the single-page case.
C7_WitnessSinglePage ==
  IsSome(links) /\ Unwrap(meta) = [page |-> 1, total_pages |-> 1]

\* The links Links::new emitted: first, last, self, and prev and next when present.
EmittedLinks(l) == <<l.first, l.last, l.curr>> \o l.prev \o l.next

NonPage(pairs) == SelectSeq(pairs, LAMBDA p : p.k # K_page)

\* C8: each emitted link holds every non-page parameter of the inbound URL with
\* its value, holds exactly one page parameter, and differs from the other
\* emitted links in the value of page only.
C8_LinksPreserveParams ==
  IsSome(links) =>
    LET ls  == EmittedLinks(Unwrap(links))
        inb == NonPage(InboundPairs)
    IN \A i \in 1..Len(ls) :
         LET lp == query_pairs(UrlQuery(ls[i])) IN
         /\ PairSet(inb) \subseteq PairSet(lp)
         /\ Len(SelectSeq(lp, LAMBDA p : p.k = K_page)) = 1
         /\ \A j \in 1..Len(ls) :
              /\ UrlBase(ls[j]) = UrlBase(ls[i])
              /\ NonPage(query_pairs(UrlQuery(ls[j]))) = NonPage(lp)

\* A member of the "links" object of a success body.
BodyLink(name) ==
  JsonGet(Unwrap(JsonGet(Unwrap(Unwrap(res).body), <<"l", "i", "n", "k", "s">>)), name)

\* C9: a success response has status 200 and one Link header listing, in this
\* order, self, first, prev (when the body has one), next (when the body has
\* one) and last, each as <url>;rel=name, separated by commas, with the URLs of
\* the body's links object.
C9_LinkHeader ==
  pc = "Done" =>
    LET url(name) == JPayload(Unwrap(BodyLink(name)))
        has(name) == BodyLink(name) # Some(JNull)
    IN /\ Unwrap(res).status = 200
       /\ Unwrap(res).link =
            Some(<<"<">> \o url(<<"s", "e", "l", "f">>) \o <<">", ";", "r", "e", "l", "=", "s", "e", "l", "f", ",", "<">> \o url(<<"f", "i", "r", "s", "t">>) \o <<">", ";", "r", "e", "l", "=", "f", "i", "r", "s", "t">>
                 \o (IF has(<<"p", "r", "e", "v">>) THEN <<",", "<">> \o url(<<"p", "r", "e", "v">>) \o <<">", ";", "r", "e", "l", "=", "p", "r", "e", "v">> ELSE <<>>)
                 \o (IF has(<<"n", "e", "x", "t">>) THEN <<",", "<">> \o url(<<"n", "e", "x", "t">>) \o <<">", ";", "r", "e", "l", "=", "n", "e", "x", "t">> ELSE <<>>)
                 \o <<",", "<">> \o url(<<"l", "a", "s", "t">>) \o <<">", ";", "r", "e", "l", "=", "l", "a", "s", "t">>)
       /\ has(<<"p", "r", "e", "v">>) <=> IsSome(Unwrap(links).prev)
       /\ has(<<"n", "e", "x", "t">>) <=> IsSome(Unwrap(links).next)

\* C9 witness: a success response with both prev and next went through
\* error_handler.
C9_Witness ==
  /\ pc = "Done" /\ filtered
  /\ BodyLink(<<"p", "r", "e", "v">>) # Some(JNull)
  /\ BodyLink(<<"n", "e", "x", "t">>) # Some(JNull)

\* C10: in a success response the Meta built from the upstream headers has
\* page >= 1 and total_pages >= 1.
C10_MetaPositive ==
  pc = "Done" => Unwrap(meta).page >= 1 /\ Unwrap(meta).total_pages >= 1

\* The three terminal states of a request.
Terminal == {"Done", "FailedUpstream", "FailedInternal"}

\* The steps of base_handler as moves of pc: each step goes to the state of the
\* step after it or to a failed state, in the order auth resolution, forwarding
\* (the GET and its answer), status check, pagination extraction, body decode,
\* link synthesis, envelope build.
PipelineOrder ==
  { <<"Start", "AuthResolved">>, <<"Start", "FailedInternal">>,
    <<"AuthResolved", "AwaitingUpstream">>, <<"AuthResolved", "FailedInternal">>,
    <<"AwaitingUpstream", "Forwarded">>, <<"AwaitingUpstream", "FailedInternal">>,
    <<"Forwarded", "StatusOK">>, <<"Forwarded", "FailedUpstream">>,
    <<"StatusOK", "MetaExtracted">>, <<"StatusOK", "FailedInternal">>,
    <<"MetaExtracted", "BodyDecoded">>, <<"MetaExtracted", "FailedInternal">>,
    <<"BodyDecoded", "LinksBuilt">>,
    <<"LinksBuilt", "Done">> }

\* What each step leaves behind exists only when the steps before it have run.
C11_StepsInOrder ==
  /\ IsSome(outbound) => IsSome(auth)
  /\ IsSome(upstream) => IsSome(outbound)
  /\ IsSome(meta) => IsSome(upstream) /\ is_success(Unwrap(upstream).status)
  /\ IsSome(data) => IsSome(meta)
  /\ IsSome(links) => IsSome(data)
  /\ pc = "Done" <=> IsSome(res) /\ ~IsSome(error)
  /\ pc = "Done" => IsSome(links) /\ Unwrap(res).status = 200
  /\ pc \in {"FailedUpstream", "FailedInternal"} <=> IsSome(error)
  /\ pc = "FailedUpstream" <=> IsSome(error) /\ Unwrap(error).kind = "TeamworkError"

\* A non-2xx upstream response is followed by the status check alone, and a 2xx
\* response without X-Pages by no step after the pagination extraction.
C11_FailureStops ==
  /\ IsSome(upstream) /\ ~is_success(Unwrap(upstream).status) =>
       /\ pc \in {"Forwarded", "FailedUpstream"}
       /\ meta = None /\ data = None /\ links = None
  /\ NoTotalPages =>
       /\ pc \in {"Forwarded", "StatusOK", "FailedInternal"}
       /\ meta = None /\ data = None /\ links = None

\* One step of a request: pc moves along PipelineOrder or stays, and a terminal
\* state is never left.
C11_Step ==
  /\ pc' = pc \/ <<pc, pc'>> \in PipelineOrder
  /\ pc \in Terminal => pc' = pc /\ error' = error

\* C11: each request runs the steps in the order auth resolution, forwarding,
\* status check, pagination extraction, body decode, link synthesis, envelope
\* build and ends in one of Done, FailedUpstream, FailedInternal, which it never
\* leaves; a step that fails stops every later step, so a non-2xx upstream
\* response ends in FailedUpstream whatever its headers and body, and a 2xx
\* response without X-Pages ends in FailedInternal with the body not decoded.
C11_PipelineOrder ==
  /\ [](C11_StepsInOrder /\ C11_FailureStops)
  /\ [][C11_Step]_vars

\* C11 happens: a non-2xx response that carries both pagination headers and a
\* decodable body has ended in FailedUpstream with nothing extracted or decoded.
C11_Witness ==
  /\ pc = "FailedUpstream"
  /\ filtered
  /\ IsSome(Unwrap(upstream).x_pages)
  /\ IsSome(Unwrap(upstream).x_page)
  /\ IsSome(DecodeBody(Unwrap(upstream).body, RouteOf(req.path).response_key))
  /\ meta = None /\ data = None

\* The frames of the open calls, and the field a frame's loop is at.
Frames == {stack[d] : d \in 1..Len(stack)}
AtField == stack # <<>> /\ Top.i <= Len(Top.input_fields)
CurName == Top.input_fields[Top.i][1]
CurValue == Top.input_fields[Top.i][2]

\* C12: every field pushed by create_object_from_map has the type its sample
\* value's shape gives: string -> String, a number held as an integer ->
\* Integer (i64), a number held as an f64 (written with a fraction) -> Float,
\* boolean -> Boolean, object -> the record named by the field name in pascal
\* case, array whose first element is an object -> list of the record named by
\* the singular of the field name in pascal case, empty array or array whose
\* first element is a scalar -> raw JSON; and every field, of an open call or of
\* a stored record, is an Option.
C12_TypeByShape ==
  /\ \A f \in Frames : \A j \in 1..Len(f.fields) :
       LET k == f.input_fields[j][1]
           v == f.input_fields[j][2]
           t == f.fields[j].ty
       IN /\ f.fields[j].old_name = k
          /\ t[1] = "Option"
          /\ JKind(v) = "string" => t[2] = TyString
          /\ JKind(v) = "number" => t[2] = TyInteger
          /\ JKind(v) = "f64" => t[2] = TyFloat
          /\ JKind(v) = "bool" => t[2] = TyBoolean
          /\ JKind(v) = "object" => t[2] = <<"Record", to_pascal_case(k)>>
          /\ JKind(v) = "array" =>
               IF Len(JPayload(v)) > 0 /\ JKind(JPayload(v)[1]) = "object"
               THEN t[2] = <<"Vec", to_pascal_case(to_singular(k))>>
               ELSE t[2] = TyRaw
  /\ \A n \in DOMAIN structs : \A j \in 1..Len(structs[n].fields) :
       structs[n].fields[j].ty[1] = "Option"

\* C12 happens: the Task sample has been read to its end, and its ten fields
\* have the types Record BoardColumn, Boolean, String, raw JSON (null), Integer,
\* Record ParentTask, raw JSON (empty array), Float, list of Tag, raw JSON
\* (array led by a number).
C12_Witness ==
  /\ Len(stack) = 1
  /\ Top.name = <<"T", "a", "s", "k">>
  /\ Top.i > Len(Top.input_fields)
  /\ [j \in 1..Len(Top.fields) |-> Top.fields[j].ty[2]]
       = << <<"Record", <<"B", "o", "a", "r", "d", "C", "o", "l", "u", "m", "n">>>>, <<"bool", <<>>>>, <<"String", <<>>>>,
            <<"serde_json::Value", <<>>>>, <<"i64", <<>>>>, <<"Record", <<"P", "a", "r", "e", "n", "t", "T", "a", "s", "k">>>>,
            <<"serde_json::Value", <<>>>>, <<"f64", <<>>>>, <<"Vec", <<"T", "a", "g">>>>,
            <<"serde_json::Value", <<>>>> >>

\* The record names the fields refer to.
RecordRefs(fields) ==
  {fields[j].ty[2][2] : j \in {i \in 1..Len(fields) : fields[i].ty[2][1] \in {"Record", "Vec"}}}

\* Record names are unique, and every reference of a stored record or of an
\* open call resolves to a stored record.
C13_Closed ==
  /\ \A n \in DOMAIN structs :
       /\ structs[n].name = n
       /\ RecordRefs(structs[n].fields) \subseteq DOMAIN structs
  /\ \A f \in Frames : RecordRefs(f.fields) \subseteq DOMAIN structs

\* C13: within one run record names are unique, every reference resolves to a
\* stored record, and a record once generated is never generated again: it
\* stays as it was first generated whatever field or resource derives its name
\* later.
C13_NeverRegenerated ==
  [][/\ C13_Closed'
     /\ \A n \in DOMAIN structs : n \in DOMAIN structs' /\ structs'[n] = structs[n]]_vars

====
